---- MODULE Spec2Model ----
(***************************************************************************)
(* The search registry (SearchProvider, search.context.tsx) and the filter *)
(* registry (FilterProvider) as state machines.                            *)
(*                                                                         *)
(* A provider keeps its store in a React state cell.  A mutation calls the *)
(* setter with an updater function; React applies the queued updaters in   *)
(* the order of the calls, each to the result of the previous one, and the *)
(* closures of the provider (the readers) see the new store only after the *)
(* next render.  Under Spec every call is made in an event of its own, so   *)
(* the provider has rendered between two calls and the readers see the     *)
(* store the last updater returned.                                        *)
(*                                                                         *)
(* The payload objects (SearchValue, FilterValue) are JavaScript objects   *)
(* held by reference: a store maps an id to a reference and objectValues / *)
(* filterObjects give the fields of the referenced object, so that an      *)
(* assignment to a field of a stored object is seen through every          *)
(* reference to it.                                                        *)
(***************************************************************************)
EXTENDS Naturals, FiniteSets, Sequences, TLC

\* The number of payload objects alive at once.
MaxObjects == 6
\* The length of the id arrays passed to the filter operations.
MaxIdsLen == 2

\* Ids of entries.  The stores are plain objects: the ids modelled are ordinary
\* names, none of them the name of a member every object inherits ("constructor",
\* "toString", ...), which `in` and a property read would find in any store.
Ids == {"a", "b"}
IdOrd == [a |-> 1, b |-> 2]
Strings == {"x"}
\* SearchValue.value is `string | null`.
Null == "null"
Values == Strings \cup {Null}
\* The result of reading a key an object does not have.
Undefined == [undefined |-> TRUE]
ObjRefs == 1 .. MaxObjects
\* Search = { [id: string]: { query: SearchValue; hasUrlSync?: boolean } }, as
\* the caller writes it: a mapping from some ids to entry literals.
SearchEntries ==
    {[query |-> [value |-> "x"]],
     [query |-> [value |-> "x"], hasUrlSync |-> TRUE],
     [query |-> [value |-> Null], hasUrlSync |-> FALSE]}
Search == UNION {[K -> SearchEntries] : K \in SUBSET Ids}
\* FilterValue = { value: unknown | null; category?: string }, as object literals.
FilterValues == {[value |-> "x", category |-> "c"], [value |-> "y"]}
\* string[]
IdArrays == UNION {[1 .. n -> Ids] : n \in 0 .. MaxIdsLen}

VARIABLES
    searchInstances,    \* the search store: id -> [query: ref, hasUrlSync?]
    objectValues,       \* ref -> the `value` field of that SearchValue object
    previous,           \* the store object the last updater was given as prev
    previousView,       \* what that store showed when it was the current one
    last,               \* the last call made to the search registry, with its arguments
    everAdded,          \* ids passed to an add or update since the provider mounted
    filters,            \* the filter store: id -> ref of a FilterValue object
    filterObjects,      \* ref -> the fields of that FilterValue object
    previousFilters,    \* the store object the last filter updater was given as prev
    previousFilterView, \* what that store showed when it was the current one
    lastFilter,         \* the last filter mutation called, with its arguments
    urlSearchParams,    \* the parameters of the current location: its (name, value) entries
    pushed,             \* the router.push requests the last call made, in order
    consumer,           \* the last call of a context hook by a component, and its outcome
    components,         \* the mounted SearchComponents: id -> [hasUrlSync, inputValue]
    queue,              \* the calls of this update cycle whose updaters have not run yet
    otherProvider       \* a second SearchProvider: its store, and what it showed
                        \* before the last mutation of either provider

searchVars == <<searchInstances, objectValues, previous, previousView, last, everAdded>>
filterVars == <<filters, filterObjects, previousFilters, previousFilterView, lastFilter>>
urlVars == <<urlSearchParams, pushed>>
hookVars == <<consumer>>
appVars == <<components, queue>>
otherVars == <<otherProvider>>
vars == <<searchVars, filterVars, urlVars, hookVars, appVars, otherVars>>

EmptyStore == [i \in {} |-> Undefined]

Min(S) == CHOOSE x \in S : \A y \in S : x <= y

\* The function f, written out pair by pair: the same function, as a value TLC
\* does not evaluate again at every application.
RECURSIVE Pairs(_, _)
Pairs(f, D) ==
    IF D = {}
    THEN <<>>
    ELSE LET x == CHOOSE y \in D : TRUE IN (x :> f[x]) @@ Pairs(f, D \ {x})
Explicit(f) == Pairs(f, DOMAIN f)

RECURSIVE NthOf(_, _)
NthOf(S, n) == IF n = 1 THEN Min(S) ELSE NthOf(S \ {Min(S)}, n - 1)

\* The SearchValue object of every entry of a search store.
QueryOf(store) == [i \in DOMAIN store |-> store[i].query]
Range(f) == {f[i] : i \in DOMAIN f}
LiveRefs ==
    Range(QueryOf(searchInstances)) \cup Range(QueryOf(previous))
        \cup Range(QueryOf(otherProvider.searchInstances))
FreeRefs == ObjRefs \ LiveRefs
\* The position of id among the keys of an object literal.
KeyIndex(K, id) == Cardinality({j \in K : IdOrd[j] <= IdOrd[id]})

\* The references of a mapping id -> reference, in the order of its keys.
RECURSIVE RefsInOrder(_, _)
RefsInOrder(refs, n) ==
    IF n > Cardinality(Ids)
    THEN <<>>
    ELSE LET here == {i \in DOMAIN refs : IdOrd[i] = n}
         IN (IF here = {} THEN <<>> ELSE <<refs[CHOOSE i \in here : TRUE]>>)
                \o RefsInOrder(refs, n + 1)
\* An object's identity is no more than a name: the objects in use are renamed
\* 1, 2, ... in the order the current store, the previous store and the store of
\* the other provider mention them, and the cells of objects no store refers to
\* any more (unobservable garbage) are cleared.
Mentioned(current, old) ==
    RefsInOrder(current, 1) \o RefsInOrder(old, 1)
        \o RefsInOrder(QueryOf(otherProvider.searchInstances), 1)
\* seq[k] is named by the number of distinct objects among seq[1 .. k'], where k'
\* is the place of its first mention.
Naming(seq) ==
    LET refs == {seq[k] : k \in 1 .. Len(seq)}
        first == Explicit([r \in refs |-> Min({k \in 1 .. Len(seq) : seq[k] = r})])
    IN Explicit([r \in refs |-> Cardinality({q \in refs : first[q] <= first[r]})])
Rename(store, naming) ==
    [i \in DOMAIN store |-> [store[i] EXCEPT !.query = naming[@]]]
RenamedHeap(heap, naming) ==
    [n \in ObjRefs |->
        IF \E r \in DOMAIN naming : naming[r] = n
        THEN heap[CHOOSE r \in DOMAIN naming : naming[r] = n]
        ELSE Null]

\* What a reader sees of an entry: { query: { value }, hasUrlSync? }.
EntryView(e, heap) ==
    IF "hasUrlSync" \in DOMAIN e
    THEN [query |-> [value |-> heap[e.query]], hasUrlSync |-> e.hasUrlSync]
    ELSE [query |-> [value |-> heap[e.query]]]
StoreView(store, heap) == [i \in DOMAIN store |-> EntryView(store[i], heap)]

\* entry.hasUrlSync || false
HasUrlSyncOrFalse(e) == IF "hasUrlSync" \in DOMAIN e THEN e.hasUrlSync ELSE FALSE

(***************************************************************************)
(* Readers: closures over the rendered store.                              *)
(***************************************************************************)
getSearchInstance(id) ==
    IF id \notin DOMAIN searchInstances
    THEN Undefined
    ELSE EntryView(searchInstances[id], objectValues)

hasSearchInstance(id) == id \in DOMAIN searchInstances

hasSearchInstances(instances) == \A id \in DOMAIN instances : hasSearchInstance(id)

\* A variant that asks for more than one key.
hasAnySearchInstanceMoreThanOne == Cardinality(DOMAIN searchInstances) > 1

\* Object.keys(searchInstances).length > 0
hasAnySearchInstance == Cardinality(DOMAIN searchInstances) > 0

\* A variant that stores the result of getSearchInstance for every id, found or not.
RECURSIVE getSearchInstancesWithPlaceholders(_, _, _)
getSearchInstancesWithPlaceholders(acc, ids, k) ==
    IF k > Len(ids)
    THEN acc
    ELSE getSearchInstancesWithPlaceholders(
             (ids[k] :> getSearchInstance(ids[k])) @@ acc, ids, k + 1)

\* ids.reduce((acc, currId) => { const instance = getSearchInstance(currId);
\*     if (instance) { acc[currId] = instance }; return acc }, acc), from the k-th id on
RECURSIVE getSearchInstancesReduce(_, _, _)
getSearchInstancesReduce(acc, ids, k) ==
    IF k > Len(ids)
    THEN acc
    ELSE LET instance == getSearchInstance(ids[k])
         IN getSearchInstancesReduce(
                IF instance # Undefined THEN (ids[k] :> instance) @@ acc ELSE acc,
                ids, k + 1)

getSearchInstances(ids) == getSearchInstancesReduce(EmptyStore, ids, 1)

(***************************************************************************)
(* useState: the initial store, and the setter followed by the render that *)
(* publishes the store the updater returned.  `next` and `heap` are what   *)
(* the updater returned and what it left in the objects.                   *)
(***************************************************************************)
SearchProvider ==
    /\ searchInstances = EmptyStore
    /\ objectValues = [r \in ObjRefs |-> Null]
    /\ previous = EmptyStore
    /\ previousView = EmptyStore
    /\ last = [op |-> "mount"]
    /\ everAdded = {}
    /\ urlSearchParams = <<>>
    /\ pushed = <<>>
    /\ queue = <<>>
    /\ otherProvider = [searchInstances |-> EmptyStore, shown |-> EmptyStore]

\* The state cell after the updater returned `next`, having left `heap` in the
\* objects, with `prev` the store it was given.
Published(next, heap, prev) ==
    LET naming == Naming(Mentioned(QueryOf(next), QueryOf(prev)))
    IN [store |-> Rename(next, naming),
        prev |-> Rename(prev, naming),
        other |-> Explicit(Rename(otherProvider.searchInstances, naming)),
        objects |-> RenamedHeap(heap, naming)]

\* The render after the updaters ran: the state cell holds `next`.
Rendered(next, heap) ==
    \E state \in {Published(Explicit(next), Explicit(heap), searchInstances)} :
        /\ searchInstances' = state.store
        /\ previous' = state.prev
        /\ previousView' = StoreView(searchInstances, objectValues)
        /\ objectValues' = state.objects
        /\ otherProvider' =
               [searchInstances |-> state.other,
                shown |-> StoreView(otherProvider.searchInstances, objectValues)]
        /\ UNCHANGED <<filterVars, hookVars>>

\* One call of a registry function by itself: no router.push, and nothing of
\* the components changes.
setSearchInstances(next, heap) ==
    /\ Rendered(next, heap)
    /\ pushed' = <<>>
    /\ UNCHANGED <<urlSearchParams, appVars>>

(***************************************************************************)
(* addSearchInstance(id, query, hasUrlSync).  The caller passes either a   *)
(* new object literal { value: v } or a SearchValue object it already      *)
(* holds, such as getSearchInstance(other).query.                          *)
(***************************************************************************)
QueryArgs ==
    {[fresh |-> TRUE, value |-> v] : v \in Values}
        \cup {[fresh |-> FALSE, ref |-> r] : r \in Range(QueryOf(searchInstances))}
ArgRef(q) == IF q.fresh THEN Min(FreeRefs) ELSE q.ref
ArgHeap(q) ==
    IF q.fresh THEN [objectValues EXCEPT ![Min(FreeRefs)] = q.value] ELSE objectValues

\* A variant without the spread of prev: { [id]: { query, hasUrlSync } }.
addSearchInstanceAlone(prev, id, query, hasUrlSync) ==
    [i \in {id} |-> [query |-> query, hasUrlSync |-> hasUrlSync]]

\* A variant that spreads prev last, { [id]: ..., ...prev }: an existing entry wins.
addSearchInstanceKeepsExisting(prev, id, query, hasUrlSync) ==
    [i \in DOMAIN prev \cup {id} |->
        IF i \in DOMAIN prev THEN prev[i] ELSE [query |-> query, hasUrlSync |-> hasUrlSync]]

addSearchInstanceUpdater(prev, id, query, hasUrlSync) ==
    [i \in DOMAIN prev \cup {id} |->
        IF i = id THEN [query |-> query, hasUrlSync |-> hasUrlSync] ELSE prev[i]]

addSearchInstance(id, q, hasUrlSync) ==
    /\ q.fresh => FreeRefs # {}
    /\ setSearchInstances(
           addSearchInstanceUpdater(searchInstances, id, ArgRef(q), hasUrlSync),
           ArgHeap(q))
    /\ last' = [op |-> "addSearchInstance", id |-> id,
                query |-> [value |-> ArgHeap(q)[ArgRef(q)]], hasUrlSync |-> hasUrlSync]
    /\ everAdded' = everAdded \cup {id}

(***************************************************************************)
(* addSearchInstances(instances) and updateSearchInstances(instances): the *)
(* entries of the argument are merged over the previous store.  The caller *)
(* writes the argument as a literal, so its SearchValue objects are new.   *)
(***************************************************************************)
\* The store entries of an argument: its objects get the next free references.
ArgEntries(instances) ==
    LET free == FreeRefs
        ref == [i \in DOMAIN instances |-> NthOf(free, KeyIndex(DOMAIN instances, i))]
    IN [i \in DOMAIN instances |->
           IF "hasUrlSync" \in DOMAIN instances[i]
           THEN [query |-> ref[i], hasUrlSync |-> instances[i].hasUrlSync]
           ELSE [query |-> ref[i]]]
ArgsHeap(instances) ==
    LET entries == ArgEntries(instances)
    IN [r \in ObjRefs |->
           IF \E i \in DOMAIN instances : entries[i].query = r
           THEN instances[CHOOSE i \in DOMAIN instances : entries[i].query = r].query.value
           ELSE objectValues[r]]

\* A variant that spreads prev last, { ...instances, ...prev }.
addSearchInstancesKeepsExisting(prev, instances) ==
    [i \in DOMAIN prev \cup DOMAIN instances |->
        IF i \in DOMAIN prev THEN prev[i] ELSE instances[i]]

\* { ...prev, ...instances }
addSearchInstancesUpdater(prev, instances) ==
    [i \in DOMAIN prev \cup DOMAIN instances |->
        IF i \in DOMAIN instances THEN instances[i] ELSE prev[i]]

addSearchInstances(instances) ==
    /\ Cardinality(FreeRefs) >= Cardinality(DOMAIN instances)
    /\ setSearchInstances(
           addSearchInstancesUpdater(searchInstances, ArgEntries(instances)),
           ArgsHeap(instances))
    /\ last' = [op |-> "addSearchInstances", instances |-> instances]
    /\ everAdded' = everAdded \cup DOMAIN instances

\* A variant that always stores hasUrlSync: false.
updateSearchInstanceDropsSync(prev, id, query) ==
    [i \in DOMAIN prev \cup {id} |->
        IF i = id THEN [query |-> query, hasUrlSync |-> FALSE] ELSE prev[i]]

\* { ...prev, [id]: { query, hasUrlSync: prev[id]?.hasUrlSync || false } }
updateSearchInstanceUpdater(prev, id, query) ==
    [i \in DOMAIN prev \cup {id} |->
        IF i = id
        THEN [query |-> query,
              hasUrlSync |-> IF id \in DOMAIN prev THEN HasUrlSyncOrFalse(prev[id]) ELSE FALSE]
        ELSE prev[i]]

updateSearchInstance(id, q) ==
    /\ q.fresh => FreeRefs # {}
    /\ setSearchInstances(
           updateSearchInstanceUpdater(searchInstances, id, ArgRef(q)), ArgHeap(q))
    /\ last' = [op |-> "updateSearchInstance", id |-> id,
                query |-> [value |-> ArgHeap(q)[ArgRef(q)]]]
    /\ everAdded' = everAdded \cup {id}

\* { ...prev, ...instances }
updateSearchInstancesUpdater(prev, instances) ==
    [i \in DOMAIN prev \cup DOMAIN instances |->
        IF i \in DOMAIN instances THEN instances[i] ELSE prev[i]]

updateSearchInstances(instances) ==
    /\ Cardinality(FreeRefs) >= Cardinality(DOMAIN instances)
    /\ setSearchInstances(
           updateSearchInstancesUpdater(searchInstances, ArgEntries(instances)),
           ArgsHeap(instances))
    /\ last' = [op |-> "updateSearchInstances", instances |-> instances]
    /\ everAdded' = everAdded \cup DOMAIN instances

(***************************************************************************)
(* remove*: the keys are deleted from a copy of the previous store.        *)
(***************************************************************************)
\* A variant that returns prev as it is.
removeSearchInstanceKeeps(prev, id) == prev

\* const { [id]: _, ...rest } = prev; return rest
removeSearchInstanceUpdater(prev, id) == [i \in DOMAIN prev \ {id} |-> prev[i]]

removeSearchInstance(id) ==
    /\ setSearchInstances(removeSearchInstanceUpdater(searchInstances, id), objectValues)
    /\ last' = [op |-> "removeSearchInstance", id |-> id]
    /\ UNCHANGED everAdded

\* A variant that reads the entries of its argument: it deletes the ids whose
\* supplied entry has a query value, if (instances[id].query.value) delete ...
removeSearchInstancesWithValue(prev, instances) ==
    [i \in DOMAIN prev \ {j \in DOMAIN instances : instances[j].query.value # Null} |->
        prev[i]]

\* Object.keys(instances).forEach((id) => { delete updated[id] })
removeSearchInstancesUpdater(prev, instances) ==
    [i \in DOMAIN prev \ DOMAIN instances |-> prev[i]]

removeSearchInstances(instances) ==
    /\ setSearchInstances(
           removeSearchInstancesUpdater(searchInstances, instances), objectValues)
    /\ last' = [op |-> "removeSearchInstances", ids |-> DOMAIN instances]
    /\ UNCHANGED everAdded

\* A variant that also asks for the location without parameters.
removeAllSearchInstancesClearsUrl ==
    /\ Rendered(EmptyStore, objectValues)
    /\ pushed' = <<<<>>>>
    /\ urlSearchParams' = <<>>
    /\ last' = [op |-> "removeAllSearchInstances"]
    /\ UNCHANGED <<everAdded, appVars>>

removeAllSearchInstances ==
    /\ setSearchInstances(EmptyStore, objectValues)
    /\ last' = [op |-> "removeAllSearchInstances"]
    /\ UNCHANGED everAdded

(***************************************************************************)
(* reset*.  resetSearchInstance stores a new entry { query: { value: null  *)
(* } }; resetSearchInstances and resetAllSearchInstances copy the store    *)
(* and assign null to the `value` field of the SearchValue objects the     *)
(* copy still shares with the previous store.                              *)
(***************************************************************************)
\* A variant that spreads the previous entry, { ...prev[id], query: { value: null } }.
resetSearchInstanceKeepsSync(prev, id, query) ==
    [i \in DOMAIN prev \cup {id} |->
        IF i # id
        THEN prev[i]
        ELSE IF id \in DOMAIN prev /\ "hasUrlSync" \in DOMAIN prev[id]
             THEN [query |-> query, hasUrlSync |-> prev[id].hasUrlSync]
             ELSE [query |-> query]]

\* { ...prev, [id]: { query: { value: null } } }
resetSearchInstanceUpdater(prev, id, query) ==
    [i \in DOMAIN prev \cup {id} |-> IF i = id THEN [query |-> query] ELSE prev[i]]

resetSearchInstance(id) ==
    /\ FreeRefs # {}
    /\ setSearchInstances(
           resetSearchInstanceUpdater(searchInstances, id, Min(FreeRefs)),
           [objectValues EXCEPT ![Min(FreeRefs)] = Null])
    /\ last' = [op |-> "resetSearchInstance", id |-> id]
    /\ UNCHANGED everAdded

\* if (updated[id]) { updated[id].query.value = null }, for every key of instances
resetSearchInstancesObjects(prev, instances, heap) ==
    [r \in ObjRefs |->
        IF \E id \in DOMAIN instances : id \in DOMAIN prev /\ prev[id].query = r
        THEN Null
        ELSE heap[r]]
\* const updated = { ...prev }; ...; return updated
resetSearchInstancesUpdater(prev, instances) == [i \in DOMAIN prev |-> prev[i]]

resetSearchInstances(instances) ==
    /\ setSearchInstances(
           resetSearchInstancesUpdater(searchInstances, instances),
           resetSearchInstancesObjects(searchInstances, instances, objectValues))
    /\ last' = [op |-> "resetSearchInstances", ids |-> DOMAIN instances]
    /\ UNCHANGED everAdded

\* A variant that assigns nothing.
resetAllLeavesValues(prev, heap) == heap

\* if (updated[id]) { updated[id].query.value = null }, for every key of updated
resetAllSearchInstancesObjects(prev, heap) ==
    [r \in ObjRefs |->
        IF \E id \in DOMAIN prev : prev[id].query = r THEN Null ELSE heap[r]]
resetAllSearchInstancesUpdater(prev) == [i \in DOMAIN prev |-> prev[i]]

resetAllSearchInstances ==
    /\ setSearchInstances(
           resetAllSearchInstancesUpdater(searchInstances),
           resetAllSearchInstancesObjects(searchInstances, objectValues))
    /\ last' = [op |-> "resetAllSearchInstances"]
    /\ UNCHANGED everAdded

(***************************************************************************)
(* The URL bridge.  updateUrlParam and updateUrlParams copy the parameters *)
(* of the current location, set parameters from the rendered store and ask *)
(* the router for a navigation to the current path with that parameter set *)
(* (router.push).  The parameters of a location are the list of its (name, *)
(* value) entries, where a name may occur more than once.  A request is    *)
(* written as the entries it carries: currentParams.toString() and the     *)
(* router's reading of the query string are inverse on lists of entries.   *)
(* The navigation has completed when the next call is made: the location   *)
(* then has the entries last requested.                                    *)
(***************************************************************************)
\* What a caller passes as a third argument, queryValue; NoValue when it passes none.
NoValue == "undefined"
QueryValues == {"y"}

\* searchInstances[id]?.query.value || ''
StoredValueOrEmpty(id) ==
    IF id \in DOMAIN searchInstances /\ objectValues[searchInstances[id].query] # Null
    THEN objectValues[searchInstances[id].query]
    ELSE ""

Max(S) == CHOOSE x \in S : \A y \in S : y <= x
\* The names of a list of entries, and the entries of one name.
Names(params) == {params[k][1] : k \in 1 .. Len(params)}
At(params, name) == {k \in 1 .. Len(params) : params[k][1] = name}
\* urlSearchParams.get(name): the value of the first entry of that name, or null
Get(params, name) ==
    IF name \in Names(params) THEN params[Min(At(params, name))][2] ELSE Null
\* urlSearchParams.getAll(name): the values of the entries of that name, in order
RECURSIVE GetAll(_, _)
GetAll(params, name) ==
    IF params = <<>>
    THEN <<>>
    ELSE (IF Head(params)[1] = name THEN <<Head(params)[2]>> ELSE <<>>)
             \o GetAll(Tail(params), name)

\* new URLSearchParams(Object.fromEntries(urlSearchParams.entries())), from the
\* k-th entry on: the object has one property per name, at the place of the first
\* entry of that name and with the value of the last one
RECURSIVE FromEntries(_, _)
FromEntries(params, k) ==
    IF k > Len(params)
    THEN <<>>
    ELSE (IF k = Min(At(params, params[k][1]))
          THEN <<<<params[k][1], params[Max(At(params, params[k][1]))][2]>>>>
          ELSE <<>>)
             \o FromEntries(params, k + 1)

\* currentParams.set(id, value): the first entry of that name gets the value and
\* the others of that name go; with no entry of that name, one is appended
RECURSIVE SetFrom(_, _, _, _)
SetFrom(currentParams, id, value, k) ==
    IF k > Len(currentParams)
    THEN <<>>
    ELSE (IF currentParams[k][1] # id
          THEN <<currentParams[k]>>
          ELSE IF k = Min(At(currentParams, id)) THEN <<<<id, value>>>> ELSE <<>>)
             \o SetFrom(currentParams, id, value, k + 1)
SetParam(currentParams, id, value) ==
    IF id \in Names(currentParams)
    THEN SetFrom(currentParams, id, value, 1)
    ELSE Append(currentParams, <<id, value>>)

\* A variant without the early return.
updateUrlParamAlwaysPushes(id, hasUrlSync, queryValue) ==
    <<SetParam(FromEntries(urlSearchParams, 1), id, StoredValueOrEmpty(id))>>

\* The requests updateUrlParam makes.  The function is declared (id, hasUrlSync):
\* a third argument is not read.
updateUrlParamRequests(id, hasUrlSync, queryValue) ==
    IF ~hasUrlSync
    THEN <<>>
    ELSE <<SetParam(FromEntries(urlSearchParams, 1), id, StoredValueOrEmpty(id))>>

\* The location after the requests a call made.
Navigated(requests) ==
    IF requests = <<>> THEN urlSearchParams ELSE requests[Len(requests)]

updateUrlParam(id, hasUrlSync, queryValue) ==
    /\ pushed' = updateUrlParamRequests(id, hasUrlSync, queryValue)
    /\ urlSearchParams' = Navigated(updateUrlParamRequests(id, hasUrlSync, queryValue))
    /\ last' = [op |-> "updateUrlParam", id |-> id, hasUrlSync |-> hasUrlSync,
                queryValue |-> queryValue, params |-> urlSearchParams,
                store |-> StoreView(searchInstances, objectValues)]
    /\ UNCHANGED <<searchInstances, objectValues, previous, previousView, everAdded>>
    /\ UNCHANGED <<filterVars, hookVars, appVars, otherVars>>

\* A handler that calls updateUrlParam(first, true) and then updateUrlParam(second,
\* true): both calls are of the render the handler was created in, so both read
\* the parameters and the store of that render, and each makes its request.
syncBoth(first, second) ==
    /\ first # second
    /\ pushed' = updateUrlParamRequests(first, TRUE, NoValue)
                     \o updateUrlParamRequests(second, TRUE, NoValue)
    /\ urlSearchParams' =
           Navigated(updateUrlParamRequests(first, TRUE, NoValue)
                         \o updateUrlParamRequests(second, TRUE, NoValue))
    /\ last' = [op |-> "syncBoth", first |-> first, second |-> second,
                params |-> urlSearchParams,
                store |-> StoreView(searchInstances, objectValues)]
    /\ UNCHANGED <<searchInstances, objectValues, previous, previousView, everAdded>>
    /\ UNCHANGED <<filterVars, hookVars, appVars, otherVars>>

\* Object.keys(searchInstances).forEach((id) => currentParams.set(id, ...)), then
\* one router.push
RECURSIVE SetParamsFrom(_, _)
SetParamsFrom(currentParams, n) ==
    IF n > Cardinality(Ids)
    THEN currentParams
    ELSE LET here == {i \in DOMAIN searchInstances : IdOrd[i] = n}
             id == CHOOSE i \in here : TRUE
         IN SetParamsFrom(
                IF here = {}
                THEN currentParams
                ELSE SetParam(currentParams, id, StoredValueOrEmpty(id)),
                n + 1)
updateUrlParamsRequests == <<SetParamsFrom(FromEntries(urlSearchParams, 1), 1)>>

updateUrlParams ==
    /\ pushed' = updateUrlParamsRequests
    /\ urlSearchParams' = Navigated(updateUrlParamsRequests)
    /\ last' = [op |-> "updateUrlParams", params |-> urlSearchParams,
                store |-> StoreView(searchInstances, objectValues)]
    /\ UNCHANGED <<searchInstances, objectValues, previous, previousView, everAdded>>
    /\ UNCHANGED <<filterVars, hookVars, appVars, otherVars>>

\* The locations a user opens: a link or the address bar gives the page a query
\* string of its own.
Locations ==
    {<<>>,
     <<<<"p", "1">>, <<"p", "2">>>>,
     <<<<"a", "">>, <<"p", "1">>>>}

\* The user navigates: useSearchParams() gives the provider the new parameters.
navigation(location) ==
    /\ urlSearchParams' = location
    /\ pushed' = <<>>
    /\ last' = [op |-> "navigation"]
    /\ UNCHANGED <<searchInstances, objectValues, previous, previousView, everAdded>>
    /\ UNCHANGED <<filterVars, hookVars, appVars, otherVars>>

(***************************************************************************)
(* Update cycles.  A call of a mutation only hands its updater (or, for    *)
(* removeAllSearchInstances, the new store) to setSearchInstances; React   *)
(* runs what the calls of one cycle handed over, in the order of the       *)
(* calls, each on what the one before returned, and then renders.  Until   *)
(* that render the readers are those of the last render.  The object       *)
(* literal of a queued call is named when its updater runs: nothing else   *)
(* refers to it before.                                                    *)
(***************************************************************************)
\* The number of calls followed within one cycle.
MaxBatch == 2
\* The calls made by the components of one cycle.
Calls ==
    {[op |-> "addSearchInstance", id |-> id, value |-> "x", hasUrlSync |-> s] :
        id \in Ids, s \in BOOLEAN}
        \cup {[op |-> "updateSearchInstance", id |-> id, value |-> "y"] : id \in Ids}
        \cup {[op |-> "removeAllSearchInstances"]}

\* A component calls a mutation: setSearchInstances(...) with nothing run yet.
call(c) ==
    /\ Len(queue) < MaxBatch
    /\ queue' = Append(queue, c)
    /\ last' = [op |-> "call", call |-> c]
    /\ pushed' = <<>>
    /\ UNCHANGED <<searchInstances, objectValues, previous, previousView, everAdded>>
    /\ UNCHANGED <<urlSearchParams, components, filterVars, hookVars, otherVars>>

\* A variant whose updaters read the store of the last render, not prev:
\* setSearchInstances({ ...searchInstances, [id]: ... }).
RunUpdaterOnRendered(prev, c, query) ==
    CASE c.op = "addSearchInstance" ->
             addSearchInstanceUpdater(searchInstances, c.id, query, c.hasUrlSync)
      [] c.op = "updateSearchInstance" ->
             updateSearchInstanceUpdater(searchInstances, c.id, query)
      [] c.op = "removeAllSearchInstances" -> EmptyStore

\* What the call c handed over, run on prev; query is the call's object.
RunUpdater(prev, c, query) ==
    CASE c.op = "addSearchInstance" ->
             addSearchInstanceUpdater(prev, c.id, query, c.hasUrlSync)
      [] c.op = "updateSearchInstance" -> updateSearchInstanceUpdater(prev, c.id, query)
      [] c.op = "removeAllSearchInstances" -> EmptyStore

\* The queue from its k-th call on, run on prev.
RECURSIVE RunUpdaters(_, _, _)
RunUpdaters(prev, calls, k) ==
    IF k > Len(calls)
    THEN prev
    ELSE RunUpdaters(Explicit(RunUpdater(prev, calls[k], NthOf(FreeRefs, k))), calls, k + 1)
\* The objects, with those of the queued calls.
QueuedObjects(calls) ==
    [r \in ObjRefs |->
        IF \E k \in 1 .. Len(calls) :
               "value" \in DOMAIN calls[k] /\ NthOf(FreeRefs, k) = r
        THEN calls[CHOOSE k \in 1 .. Len(calls) : NthOf(FreeRefs, k) = r].value
        ELSE objectValues[r]]

\* The end of the cycle: the queue runs and the provider renders.
render ==
    /\ queue # <<>>
    /\ Cardinality(FreeRefs) >= Len(queue)
    /\ Rendered(RunUpdaters(searchInstances, queue, 1), QueuedObjects(queue))
    /\ queue' = <<>>
    /\ last' = [op |-> "render", calls |-> queue,
                store |-> StoreView(searchInstances, objectValues)]
    /\ everAdded' =
           everAdded \cup {queue[k].id : k \in {j \in 1 .. Len(queue) : "id" \in DOMAIN queue[j]}}
    /\ pushed' = <<>>
    /\ UNCHANGED <<urlSearchParams, components>>

(***************************************************************************)
(* A second SearchProvider, mounted elsewhere in the application.  It has  *)
(* a state cell of its own; the SearchValue objects are those of the one   *)
(* JavaScript heap, and a caller may pass to one provider an object that   *)
(* an entry of the other refers to.                                        *)
(***************************************************************************)
\* The render of the other provider with the store `next`, the objects being
\* `heap`: the state cell of the first provider is not written.
otherRendered(next, heap) ==
    \E naming \in {Naming(RefsInOrder(QueryOf(searchInstances), 1)
                              \o RefsInOrder(QueryOf(previous), 1)
                              \o RefsInOrder(QueryOf(next), 1))} :
        /\ otherProvider' =
               [searchInstances |-> Explicit(Rename(next, naming)),
                shown |-> StoreView(otherProvider.searchInstances, objectValues)]
        /\ objectValues' = Explicit(RenamedHeap(heap, naming))
        /\ searchInstances' = Explicit(Rename(searchInstances, naming))
        /\ previous' = Explicit(Rename(previous, naming))
        /\ pushed' = <<>>
        /\ UNCHANGED <<previousView, everAdded>>
        /\ UNCHANGED <<urlSearchParams, appVars, filterVars, hookVars>>

\* addSearchInstance(id, query, hasUrlSync) of the other provider
otherAddSearchInstance(id, q, hasUrlSync) ==
    /\ q.fresh => FreeRefs # {}
    /\ otherRendered(
           addSearchInstanceUpdater(otherProvider.searchInstances, id, ArgRef(q), hasUrlSync),
           ArgHeap(q))
    /\ last' = [op |-> "addSearchInstance", provider |-> "other", id |-> id,
                seen |-> StoreView(searchInstances, objectValues)]

\* resetAllSearchInstances() of the other provider
otherResetAllSearchInstances ==
    /\ otherRendered(
           resetAllSearchInstancesUpdater(otherProvider.searchInstances),
           resetAllSearchInstancesObjects(otherProvider.searchInstances, objectValues))
    /\ last' = [op |-> "resetAllSearchInstances", provider |-> "other",
                seen |-> StoreView(searchInstances, objectValues)]

(***************************************************************************)
(* SearchComponent: an <input> under the provider, with the props id and   *)
(* hasUrlSync and the local state inputValue.  Its handlers use the        *)
(* registry functions of the render they were created in: updateUrlParam   *)
(* reads the store and the parameters of that render, while the updater    *)
(* that updateSearchInstance queued runs before the next render.  A step   *)
(* is the whole handler, the render that follows and the navigation it     *)
(* asked for.  One component is mounted per id.                            *)
(***************************************************************************)
\* What the user can have typed in the input, and the keys of a keydown.
InputTexts == {"x"}
Keys == {"Enter", "Tab"}
\* The query strings of the links that lead to the page.
Links ==
    {<<>>,
     <<<<"a", "">>>>,
     <<<<"a", "y">>>>}

\* urlValue ? { value: urlValue } : { value: null }: the value of the new object
InitialQuery(urlValue) == IF urlValue # Null /\ urlValue # "" THEN urlValue ELSE Null

\* Mounting: useState('') and the effect, which registers the entry.
SearchComponent(id, hasUrlSync) ==
    /\ id \notin DOMAIN components
    /\ FreeRefs # {}
    /\ Rendered(
           addSearchInstanceUpdater(searchInstances, id, Min(FreeRefs), hasUrlSync),
           [objectValues EXCEPT ![Min(FreeRefs)] = InitialQuery(Get(urlSearchParams, id))])
    /\ components' =
           Explicit([i \in DOMAIN components \cup {id} |->
               IF i = id
               THEN [hasUrlSync |-> hasUrlSync, inputValue |-> ""]
               ELSE components[i]])
    /\ last' = [op |-> "SearchComponent", id |-> id, hasUrlSync |-> hasUrlSync,
                params |-> urlSearchParams,
                store |-> StoreView(searchInstances, objectValues)]
    /\ everAdded' = everAdded \cup {id}
    /\ pushed' = <<>>
    /\ UNCHANGED <<urlSearchParams, queue>>

\* A variant whose effect returns no cleanup.
unmountKeepsEntry(id) ==
    /\ id \in DOMAIN components
    /\ Rendered(searchInstances, objectValues)
    /\ components' = Explicit([i \in DOMAIN components \ {id} |-> components[i]])
    /\ last' = [op |-> "unmount", id |-> id]
    /\ pushed' = <<>>
    /\ UNCHANGED <<everAdded, urlSearchParams, queue>>

\* Unmounting: the cleanup of the effect.
unmount(id) ==
    /\ id \in DOMAIN components
    /\ Rendered(removeSearchInstanceUpdater(searchInstances, id), objectValues)
    /\ components' = Explicit([i \in DOMAIN components \ {id} |-> components[i]])
    /\ last' = [op |-> "unmount", id |-> id]
    /\ pushed' = <<>>
    /\ UNCHANGED <<everAdded, urlSearchParams, queue>>

\* A variant that also commits what was typed.
handleInputChangeCommits(id, text) ==
    /\ id \in DOMAIN components
    /\ FreeRefs # {}
    /\ components' = [components EXCEPT ![id].inputValue = text]
    /\ Rendered(
           updateSearchInstanceUpdater(searchInstances, id, Min(FreeRefs)),
           [objectValues EXCEPT ![Min(FreeRefs)] = text])
    /\ last' = [op |-> "handleInputChange", id |-> id, text |-> text,
                params |-> urlSearchParams,
                store |-> StoreView(searchInstances, objectValues)]
    /\ pushed' = <<>>
    /\ UNCHANGED <<everAdded, urlSearchParams, queue>>

\* setInputValue(event.target.value)
handleInputChange(id, text) ==
    /\ id \in DOMAIN components
    /\ components' = [components EXCEPT ![id].inputValue = text]
    /\ last' = [op |-> "handleInputChange", id |-> id, text |-> text,
                params |-> urlSearchParams,
                store |-> StoreView(searchInstances, objectValues)]
    /\ pushed' = <<>>
    /\ UNCHANGED <<searchInstances, objectValues, previous, previousView, everAdded>>
    /\ UNCHANGED <<urlSearchParams, queue, filterVars, hookVars, otherVars>>

\* if (hasUrlSync) { updateUrlParam(id, hasUrlSync, searchValue) }: the requests
\* made, from the store and the parameters of the render the handler is of
RequestsOnEnter(id, hasUrlSync, searchValue) ==
    IF hasUrlSync THEN updateUrlParamRequests(id, hasUrlSync, searchValue) ELSE <<>>

\* e.currentTarget.value is the value the input was rendered with, inputValue.
handleKeyDown(id, key) ==
    /\ id \in DOMAIN components
    /\ last' = [op |-> "handleKeyDown", id |-> id, key |-> key,
                hasUrlSync |-> components[id].hasUrlSync,
                searchValue |-> components[id].inputValue,
                params |-> urlSearchParams,
                store |-> StoreView(searchInstances, objectValues)]
    /\ IF key = "Enter"
       THEN /\ FreeRefs # {}
            /\ Rendered(
                   updateSearchInstanceUpdater(searchInstances, id, Min(FreeRefs)),
                   [objectValues EXCEPT ![Min(FreeRefs)] = components[id].inputValue])
            /\ pushed' =
                   RequestsOnEnter(id, components[id].hasUrlSync, components[id].inputValue)
            /\ urlSearchParams' =
                   Navigated(RequestsOnEnter(
                       id, components[id].hasUrlSync, components[id].inputValue))
            /\ everAdded' = everAdded \cup {id}
            /\ UNCHANGED <<components, queue>>
       ELSE /\ pushed' = <<>>
            /\ UNCHANGED <<searchInstances, objectValues, previous, previousView,
                           everAdded, urlSearchParams, components, queue,
                           filterVars, hookVars, otherVars>>

(***************************************************************************)
(* The context hooks.  A component calls useSearchContext() or useFilter() *)
(* with (enclosed) or without a provider of that context above it.         *)
(* useContext gives the value of the nearest provider, and the default the *)
(* context was created with when there is none.                            *)
(***************************************************************************)
\* const defaultValues: SearchContextValue = { searchInstances: {}, ... () => {} ... }
defaultValues == [api |-> "defaultValues"]
\* createContext<SearchContextValue | undefined>(defaultValues)
SearchContext == defaultValues

\* A variant created with a default value.
FilterContextWithDefault == [api |-> "defaultValues"]

\* createContext<FilterContextValue | undefined>(undefined)
FilterContext == Undefined

useContext(Context, value, enclosed) == IF enclosed THEN value ELSE Context

\* if (!context) { throw new Error(message) }; return context
ContextOrThrow(context, message) ==
    IF context = Undefined THEN [threw |-> message] ELSE [returned |-> context]

useSearchContext(enclosed) ==
    /\ consumer' =
           [hook |-> "useSearchContext", enclosed |-> enclosed,
            outcome |-> ContextOrThrow(
                useContext(SearchContext, [api |-> "SearchProvider"], enclosed),
                "useSearchContext must be used within a SearchProvider")]
    /\ UNCHANGED <<searchVars, filterVars, urlVars, appVars, otherVars>>

useFilter(enclosed) ==
    /\ consumer' =
           [hook |-> "useFilter", enclosed |-> enclosed,
            outcome |-> ContextOrThrow(
                useContext(FilterContext, [api |-> "FilterProvider"], enclosed),
                "useFilter must be used within a FilterProvider")]
    /\ UNCHANGED <<searchVars, filterVars, urlVars, appVars, otherVars>>

\* The component holds the value of a provider: its hook returned it.
Holds(api) ==
    /\ consumer.hook # "none"
    /\ "returned" \in DOMAIN consumer.outcome
    /\ consumer.outcome.returned.api = api

(***************************************************************************)
(* FilterProvider.  The filter store maps an id to the FilterValue object  *)
(* the caller passed: a new object literal, or an object it already holds, *)
(* such as filter[other].                                                  *)
(***************************************************************************)
FilterView(store, heap) == [i \in DOMAIN store |-> heap[store[i]]]
LiveFilterRefs == Range(filters) \cup Range(previousFilters)
FreeFilterRefs == ObjRefs \ LiveFilterRefs

FilterProvider ==
    /\ filters = EmptyStore
    /\ filterObjects = [r \in ObjRefs |-> [value |-> Null]]
    /\ previousFilters = EmptyStore
    /\ previousFilterView = EmptyStore
    /\ lastFilter = [op |-> "mount"]

PublishedFilters(next, heap, prev) ==
    LET naming == Naming(Mentioned(next, prev))
    IN [store |-> [i \in DOMAIN next |-> naming[next[i]]],
        prev |-> [i \in DOMAIN prev |-> naming[prev[i]]],
        objects |->
            [n \in ObjRefs |->
                IF \E r \in DOMAIN naming : naming[r] = n
                THEN heap[CHOOSE r \in DOMAIN naming : naming[r] = n]
                ELSE [value |-> Null]]]

setFilters(next, heap) ==
    \E state \in {PublishedFilters(Explicit(next), Explicit(heap), filters)} :
        /\ filters' = state.store
        /\ previousFilters' = state.prev
        /\ previousFilterView' = FilterView(filters, filterObjects)
        /\ filterObjects' = state.objects
        /\ UNCHANGED <<searchVars, urlVars, hookVars, appVars, otherVars>>

\* A variant that takes a filter whose value is null for missing.
hasFiltersWithValue(filterIds) ==
    \A k \in 1 .. Len(filterIds) :
        /\ filterIds[k] \in DOMAIN filters
        /\ filterObjects[filters[filterIds[k]]].value # Null

\* hasFilters reads the rendered store: filterIds.every((id) => filters[id] !== undefined)
hasFilters(filterIds) == \A k \in 1 .. Len(filterIds) : filterIds[k] \in DOMAIN filters

\* The arguments of addFilters and updateFilters.
FilterArgs ==
    {[fresh |-> TRUE, fields |-> f] : f \in FilterValues}
        \cup {[fresh |-> FALSE, ref |-> r] : r \in Range(filters)}
FiltersArgs == UNION {[K -> FilterArgs] : K \in SUBSET Ids}
\* The objects of an argument: its literals get the next free references.
FilterArgRefs(args) ==
    LET free == FreeFilterRefs
        lit == {i \in DOMAIN args : args[i].fresh}
    IN [i \in DOMAIN args |->
           IF args[i].fresh THEN NthOf(free, KeyIndex(lit, i)) ELSE args[i].ref]
\* What the caller's argument shows when the call is made.
FilterArgView(args) ==
    [i \in DOMAIN args |->
        IF args[i].fresh THEN args[i].fields ELSE filterObjects[args[i].ref]]
\* A variant that merges the fields of the entry the store has at that id into
\* the object the caller passed: { ...prev[id], ...filters[id] }.
FilterArgHeapDeepMerge(args) ==
    LET refs == FilterArgRefs(args)
        merged(i) ==
            IF /\ i \in DOMAIN filters
               /\ "category" \in DOMAIN filterObjects[filters[i]]
               /\ "category" \notin DOMAIN args[i].fields
            THEN [value |-> args[i].fields.value,
                  category |-> filterObjects[filters[i]].category]
            ELSE args[i].fields
    IN [r \in ObjRefs |->
           IF \E i \in DOMAIN args : args[i].fresh /\ refs[i] = r
           THEN merged(CHOOSE i \in DOMAIN args : args[i].fresh /\ refs[i] = r)
           ELSE filterObjects[r]]
\* The objects after the call evaluated its argument: the literals are new
\* objects with the fields written, the others are as they were.
FilterArgHeap(args) ==
    LET refs == FilterArgRefs(args)
    IN [r \in ObjRefs |->
           IF \E i \in DOMAIN args : args[i].fresh /\ refs[i] = r
           THEN args[CHOOSE i \in DOMAIN args : args[i].fresh /\ refs[i] = r].fields
           ELSE filterObjects[r]]

\* { ...prev, ...filters }
addFiltersUpdater(prev, args) ==
    [i \in DOMAIN prev \cup DOMAIN args |-> IF i \in DOMAIN args THEN args[i] ELSE prev[i]]

addFilters(args) ==
    /\ Cardinality(FreeFilterRefs) >= Cardinality({i \in DOMAIN args : args[i].fresh})
    /\ setFilters(addFiltersUpdater(filters, FilterArgRefs(args)), FilterArgHeap(args))
    /\ lastFilter' = [op |-> "addFilters", filters |-> FilterArgView(args)]

\* A variant that writes only the ids the store already has.
updateFiltersOnlyExisting(prev, args) ==
    [i \in DOMAIN prev |-> IF i \in DOMAIN args THEN args[i] ELSE prev[i]]

\* { ...prev, ...filters }
updateFiltersUpdater(prev, args) ==
    [i \in DOMAIN prev \cup DOMAIN args |-> IF i \in DOMAIN args THEN args[i] ELSE prev[i]]

updateFilters(args) ==
    /\ Cardinality(FreeFilterRefs) >= Cardinality({i \in DOMAIN args : args[i].fresh})
    /\ setFilters(updateFiltersUpdater(filters, FilterArgRefs(args)), FilterArgHeap(args))
    /\ lastFilter' = [op |-> "updateFilters", filters |-> FilterArgView(args)]

\* A variant that gives up at the first id the store does not have.
RECURSIVE removeFiltersStopsAtAbsent(_, _, _)
removeFiltersStopsAtAbsent(updated, filterIds, k) ==
    IF k > Len(filterIds) \/ filterIds[k] \notin DOMAIN updated
    THEN updated
    ELSE removeFiltersStopsAtAbsent(
             [i \in DOMAIN updated \ {filterIds[k]} |-> updated[i]], filterIds, k + 1)

\* filterIds.forEach((id) => { delete updated[id] }), from the k-th id on
RECURSIVE removeFiltersUpdater(_, _, _)
removeFiltersUpdater(updated, filterIds, k) ==
    IF k > Len(filterIds)
    THEN updated
    ELSE removeFiltersUpdater(
             [i \in DOMAIN updated \ {filterIds[k]} |-> updated[i]], filterIds, k + 1)

removeFilters(filterIds) ==
    /\ setFilters(removeFiltersUpdater(filters, filterIds, 1), filterObjects)
    /\ lastFilter' = [op |-> "removeFilters", filterIds |-> filterIds]

\* A variant that replaces the object's fields, updated[id] = { value: null }.
RECURSIVE resetFiltersDropsCategory(_, _, _, _)
resetFiltersDropsCategory(updated, filterIds, k, heap) ==
    IF k > Len(filterIds)
    THEN heap
    ELSE resetFiltersDropsCategory(
             updated, filterIds, k + 1,
             IF filterIds[k] \in DOMAIN updated
             THEN [heap EXCEPT ![updated[filterIds[k]]] = [value |-> Null]]
             ELSE heap)

\* filterIds.forEach((id) => { if (updated[id]) updated[id].value = null }),
\* from the k-th id on: the objects after the assignments
RECURSIVE resetFiltersObjects(_, _, _, _)
resetFiltersObjects(updated, filterIds, k, heap) ==
    IF k > Len(filterIds)
    THEN heap
    ELSE resetFiltersObjects(
             updated, filterIds, k + 1,
             IF filterIds[k] \in DOMAIN updated
             THEN [heap EXCEPT ![updated[filterIds[k]]] = [@ EXCEPT !.value = Null]]
             ELSE heap)
\* const updated = { ...prev }; ...; return updated
resetFiltersUpdater(prev, filterIds) == [i \in DOMAIN prev |-> prev[i]]

resetFilters(filterIds) ==
    /\ setFilters(
           resetFiltersUpdater(filters, filterIds),
           resetFiltersObjects(filters, filterIds, 1, filterObjects))
    /\ lastFilter' = [op |-> "resetFilters", filterIds |-> filterIds]

\* A variant that resets the values and keeps the keys.
resetAllFiltersKeepsKeys(prev) == prev

\* setFilters({})
resetAllFiltersUpdater(prev) == EmptyStore

resetAllFilters ==
    /\ setFilters(resetAllFiltersUpdater(filters), filterObjects)
    /\ lastFilter' = [op |-> "resetAllFilters"]

\* No component has called a hook.
NoConsumer == consumer = [hook |-> "none"]
\* No SearchComponent is mounted.
NoComponent == components = EmptyStore

Init == SearchProvider /\ FilterProvider /\ NoConsumer /\ NoComponent

Next ==
    \/ \E id \in Ids, q \in QueryArgs, s \in BOOLEAN : addSearchInstance(id, q, s)
    \/ \E instances \in Search : addSearchInstances(instances)
    \/ \E id \in Ids, q \in QueryArgs : updateSearchInstance(id, q)
    \/ \E instances \in Search : updateSearchInstances(instances)
    \/ \E id \in Ids : removeSearchInstance(id)
    \/ \E instances \in Search : removeSearchInstances(instances)
    \/ removeAllSearchInstances
    \/ \E id \in Ids : resetSearchInstance(id)
    \/ \E instances \in Search : resetSearchInstances(instances)
    \/ resetAllSearchInstances

FilterNext ==
    \/ \E args \in FiltersArgs : addFilters(args)
    \/ \E args \in FiltersArgs : updateFilters(args)
    \/ \E filterIds \in IdArrays : removeFilters(filterIds)
    \/ \E filterIds \in IdArrays : resetFilters(filterIds)
    \/ resetAllFilters

\* The search registry alone.
Spec == Init /\ [][Next]_vars

\* The filter registry alone.
FilterSpec == Init /\ [][FilterNext]_vars

\* The search registry and its URL bridge.
UrlNext ==
    \/ \E id \in Ids, v \in Strings, s \in BOOLEAN :
           addSearchInstance(id, [fresh |-> TRUE, value |-> v], s)
    \/ \E id \in Ids : resetSearchInstance(id)
    \/ \E id \in Ids, s \in BOOLEAN, v \in QueryValues \cup {NoValue} :
           updateUrlParam(id, s, v)
    \/ updateUrlParams
    \/ \E location \in Locations : navigation(location)

UrlSpec == Init /\ [][UrlNext]_vars

\* Every mutation of the registry, on entries that ask for the URL sync, and the
\* two calls of the bridge.
SyncedSearch ==
    {instances \in Search :
        /\ DOMAIN instances = Ids
        /\ \A id \in Ids : "hasUrlSync" \in DOMAIN instances[id] /\ instances[id].hasUrlSync}
BridgeNext ==
    \/ \E id \in Ids, v \in Strings :
           addSearchInstance(id, [fresh |-> TRUE, value |-> v], TRUE)
    \/ \E instances \in SyncedSearch : addSearchInstances(instances)
    \/ \E id \in Ids, v \in Strings :
           updateSearchInstance(id, [fresh |-> TRUE, value |-> v])
    \/ \E instances \in SyncedSearch : updateSearchInstances(instances)
    \/ \E id \in Ids : removeSearchInstance(id)
    \/ \E instances \in SyncedSearch : removeSearchInstances(instances)
    \/ removeAllSearchInstances
    \/ \E id \in Ids : resetSearchInstance(id)
    \/ \E instances \in SyncedSearch : resetSearchInstances(instances)
    \/ resetAllSearchInstances
    \/ \E id \in Ids : updateUrlParam(id, TRUE, NoValue)
    \/ updateUrlParams

BridgeSpec == Init /\ [][BridgeNext]_vars

\* Callers that sync one entry, or two entries in one handler.
SyncNext ==
    \/ \E id \in Ids, v \in Strings, s \in BOOLEAN :
           addSearchInstance(id, [fresh |-> TRUE, value |-> v], s)
    \/ \E id \in Ids : resetSearchInstance(id)
    \/ \E id \in Ids : updateUrlParam(id, TRUE, NoValue)
    \/ \E first \in Ids, second \in Ids : syncBoth(first, second)
    \/ navigation(<<>>)

SyncSpec == Init /\ [][SyncNext]_vars

\* Components that call the hooks, and use the registry a hook returned.
HookNext ==
    \/ \E enclosed \in BOOLEAN : useSearchContext(enclosed)
    \/ \E enclosed \in BOOLEAN : useFilter(enclosed)
    \/ Holds("SearchProvider") /\ \E instances \in Search : addSearchInstances(instances)
    \/ Holds("SearchProvider") /\ removeAllSearchInstances
    \/ Holds("FilterProvider") /\ \E filterIds \in IdArrays : resetFilters(filterIds)
    \/ Holds("FilterProvider") /\ resetAllFilters

HookSpec == Init /\ [][HookNext]_vars

\* Two SearchProviders and callers that hold entries of both.
IsolationNext ==
    \/ \E id \in Ids, v \in Strings :
           addSearchInstance(id, [fresh |-> TRUE, value |-> v], FALSE)
    \/ resetAllSearchInstances
    \/ \E id \in Ids, q \in QueryArgs : otherAddSearchInstance(id, q, FALSE)
    \/ otherResetAllSearchInstances

IsolationSpec == Init /\ [][IsolationNext]_vars

\* The calls of the components of a cycle, and the render that ends it.
BatchNext ==
    \/ \E c \in Calls : call(c)
    \/ render

BatchSpec == Init /\ [][BatchNext]_vars

\* The life of SearchComponents next to callers that reset the registry.
LifecycleNext ==
    \/ \E id \in Ids : SearchComponent(id, FALSE)
    \/ \E id \in Ids, text \in InputTexts : handleInputChange(id, text)
    \/ \E id \in Ids : handleKeyDown(id, "Enter")
    \/ \E id \in Ids : resetSearchInstance(id)
    \/ \E id \in Ids : resetSearchInstances([i \in {id} |-> [query |-> [value |-> "x"]]])
    \/ resetAllSearchInstances
    \/ \E id \in Ids : unmount(id)

LifecycleSpec == Init /\ [][LifecycleNext]_vars

\* SearchComponents under one provider, and the links the user follows.
ComponentNext ==
    \/ \E id \in Ids, hasUrlSync \in BOOLEAN : SearchComponent(id, hasUrlSync)
    \/ \E id \in Ids, text \in InputTexts : handleInputChange(id, text)
    \/ \E id \in Ids, key \in Keys : handleKeyDown(id, key)
    \/ \E id \in Ids : unmount(id)
    \/ \E location \in Links : navigation(location)

ComponentSpec == Init /\ [][ComponentNext]_vars

\* The bulk operations of the two registries.  The providers share no state and
\* no operation of one reads or writes the store of the other, so what an
\* application that uses both can see of one registry is what an application
\* that uses that one alone can see: the behaviours followed are those that use
\* one of the two.
SearchUnused == last.op = "mount"
FilterUnused == lastFilter.op = "mount"

BulkNext ==
    \/ FilterUnused /\ \E instances \in Search : addSearchInstances(instances)
    \/ FilterUnused /\ \E instances \in Search : updateSearchInstances(instances)
    \/ FilterUnused /\ \E instances \in Search : removeSearchInstances(instances)
    \/ FilterUnused /\ \E instances \in Search : resetSearchInstances(instances)
    \/ SearchUnused /\ \E args \in FiltersArgs : addFilters(args)
    \/ SearchUnused /\ \E args \in FiltersArgs : updateFilters(args)
    \/ SearchUnused /\ \E filterIds \in IdArrays : removeFilters(filterIds)
    \/ SearchUnused /\ \E filterIds \in IdArrays : resetFilters(filterIds)

BulkSpec == Init /\ [][BulkNext]_vars

(***************************************************************************)
(* Properties.  View is what the readers see of the current store.         *)
(***************************************************************************)
View == StoreView(searchInstances, objectValues)
FiltersView == FilterView(filters, filterObjects)

\* C1: once addSearchInstance(id, q, s) has been applied, whatever the store held
\* before (another entry at id included), getSearchInstance(id) returns exactly
\* { query: q, hasUrlSync: s }.
C1_AddThenGet ==
    last.op = "addSearchInstance" =>
        getSearchInstance(last.id) = [query |-> last.query, hasUrlSync |-> last.hasUrlSync]
\* An add that replaced a different entry at the same id.
C1_Witness ==
    /\ last.op = "addSearchInstance"
    /\ last.id \in DOMAIN previousView
    /\ previousView[last.id] # getSearchInstance(last.id)
    /\ getSearchInstance(last.id) = [query |-> [value |-> "x"], hasUrlSync |-> TRUE]

\* C2: an id that was never passed to an add or an update since the provider
\* mounted is not in the store: hasSearchInstance(id) is false and
\* getSearchInstance(id) is undefined.
C2_NeverAddedIsAbsent ==
    \A id \in Ids \ everAdded :
        ~hasSearchInstance(id) /\ getSearchInstance(id) = Undefined

\* C3: updateSearchInstance(id, q) sets the entry's query to q; an entry that
\* existed keeps the hasUrlSync it was given, an entry that did not exist is
\* created with hasUrlSync = false.
C3_UpdateKeepsSync ==
    last.op = "updateSearchInstance" =>
        /\ hasSearchInstance(last.id)
        /\ getSearchInstance(last.id).query = last.query
        /\ (last.id \in DOMAIN previousView /\ "hasUrlSync" \in DOMAIN previousView[last.id]
                => getSearchInstance(last.id).hasUrlSync = previousView[last.id].hasUrlSync)
        /\ (last.id \notin DOMAIN previousView
                => getSearchInstance(last.id).hasUrlSync = FALSE)
\* An update that changed the value of an entry whose hasUrlSync is true.
C3_Witness ==
    /\ last.op = "updateSearchInstance"
    /\ last.id \in DOMAIN previousView
    /\ "hasUrlSync" \in DOMAIN previousView[last.id]
    /\ previousView[last.id].hasUrlSync
    /\ previousView[last.id].query # last.query

\* C4: resetSearchInstance(id) on an id that is not in the store is a no-op: the
\* store is unchanged and the key is not created.
C4_ResetMissingIsNoOp ==
    (last.op = "resetSearchInstance" /\ last.id \notin DOMAIN previousView) =>
        View = previousView /\ ~hasSearchInstance(last.id)

\* C5: resetSearchInstance(id) on an existing id keeps the key and replaces the
\* entry by one whose query value is null and that has no hasUrlSync, also when
\* the entry was added with hasUrlSync = true.
C5_ResetReplacesEntry ==
    (last.op = "resetSearchInstance" /\ last.id \in DOMAIN previousView) =>
        /\ hasSearchInstance(last.id)
        /\ getSearchInstance(last.id) = [query |-> [value |-> Null]]
\* A reset of an entry that held a value and hasUrlSync = true.
C5_Witness ==
    /\ last.op = "resetSearchInstance"
    /\ last.id \in DOMAIN previousView
    /\ previousView[last.id] = [query |-> [value |-> "x"], hasUrlSync |-> TRUE]

\* C6: resetSearchInstances(instances) sets the query value of every listed id
\* that exists to null, creates no key, and leaves the key set and every unlisted
\* entry unchanged.
C6_BulkResetFrame ==
    last.op = "resetSearchInstances" =>
        /\ DOMAIN View = DOMAIN previousView
        /\ \A id \in DOMAIN View :
               IF id \in last.ids
               THEN View[id].query.value = Null
               ELSE View[id] = previousView[id]

\* C7: in the filter registry, after addFilters the ids added are present; after
\* resetFilters(ids) every listed id that was present is still present, its value
\* is null and its category is what it was, and a listed id that was not present
\* is not created; after removeFilters(ids) no listed id is present.
C7_FilterLifecycle ==
    /\ lastFilter.op = "addFilters" =>
           \A id \in DOMAIN lastFilter.filters :
               hasFilters(<<id>>) /\ FiltersView[id] = lastFilter.filters[id]
    /\ lastFilter.op = "resetFilters" =>
           \A k \in 1 .. Len(lastFilter.filterIds) :
               LET id == lastFilter.filterIds[k]
               IN IF id \in DOMAIN previousFilterView
                  THEN /\ hasFilters(<<id>>)
                       /\ FiltersView[id] = [previousFilterView[id] EXCEPT !.value = Null]
                  ELSE ~hasFilters(<<id>>)
    /\ lastFilter.op = "removeFilters" =>
           \A k \in 1 .. Len(lastFilter.filterIds) : ~hasFilters(<<lastFilter.filterIds[k]>>)
\* resetFilters(["a"]) on a filter that had a value and the category "c".
C7_Witness ==
    /\ lastFilter.op = "resetFilters"
    /\ lastFilter.filterIds = <<"a">>
    /\ "a" \in DOMAIN previousFilterView
    /\ previousFilterView["a"] = [value |-> "x", category |-> "c"]
    /\ FiltersView["a"] = [value |-> Null, category |-> "c"]

\* C8: resetAllSearchInstances() keeps the key set of the store (an empty store
\* stays empty) and afterwards the query value of every entry is null.
C8_ResetAllKeepsKeys ==
    last.op = "resetAllSearchInstances" =>
        /\ DOMAIN View = DOMAIN previousView
        /\ \A id \in DOMAIN View : getSearchInstance(id).query.value = Null
\* A reset of a store of two entries, one of them holding a value.
C8_Witness ==
    /\ last.op = "resetAllSearchInstances"
    /\ DOMAIN previousView = Ids
    /\ \E id \in Ids : previousView[id].query.value = "x"

\* C9 as stated: resetAllFilters() resets every value to null and keeps every
\* key, so that hasFilters keeps its result.
C9_ResetAllFiltersKeepsKeys ==
    lastFilter.op = "resetAllFilters" =>
        /\ DOMAIN FiltersView = DOMAIN previousFilterView
        /\ \A id \in DOMAIN FiltersView : FiltersView[id].value = Null
\* C9 as amended: resetAllFilters() removes every filter; the store is empty
\* afterwards and hasFilters(ids) is true for the empty array only.
C9_ResetAllFiltersEmpties ==
    lastFilter.op = "resetAllFilters" =>
        /\ DOMAIN filters = {}
        /\ \A filterIds \in IdArrays : hasFilters(filterIds) <=> Len(filterIds) = 0
\* resetAllFilters() on a store that held filters.
C9_Witness ==
    /\ lastFilter.op = "resetAllFilters"
    /\ DOMAIN previousFilterView = Ids

\* C10: after removeSearchInstance(id), hasSearchInstance(id) is false and
\* getSearchInstance(id) is undefined; removing an id that is not present leaves
\* the store unchanged.
C10_RemoveThenAbsent ==
    last.op = "removeSearchInstance" =>
        /\ ~hasSearchInstance(last.id)
        /\ getSearchInstance(last.id) = Undefined
        /\ (last.id \notin DOMAIN previousView => View = previousView)
\* A removal of an entry that was present, next to another entry.
C10_Witness ==
    /\ last.op = "removeSearchInstance"
    /\ DOMAIN previousView = Ids
    /\ DOMAIN View = Ids \ {last.id}

\* C11: bulk removal (removeSearchInstances, removeFilters) deletes every listed
\* id that is present, also when other listed ids are absent, and leaves every
\* unlisted entry as it was: the store loses exactly the listed ids it had.
C11_BulkRemoval ==
    /\ last.op = "removeSearchInstances" =>
           /\ DOMAIN View = DOMAIN previousView \ last.ids
           /\ \A id \in DOMAIN View : View[id] = previousView[id]
           /\ Cardinality(DOMAIN View) =
                  Cardinality(DOMAIN previousView)
                      - Cardinality(last.ids \cap DOMAIN previousView)
    /\ lastFilter.op = "removeFilters" =>
           /\ DOMAIN FiltersView = DOMAIN previousFilterView \ Range(lastFilter.filterIds)
           /\ \A id \in DOMAIN FiltersView : FiltersView[id] = previousFilterView[id]
           /\ Cardinality(DOMAIN FiltersView) =
                  Cardinality(DOMAIN previousFilterView)
                      - Cardinality(Range(lastFilter.filterIds) \cap DOMAIN previousFilterView)
\* removeFilters(["b", "a"]) on a store that has "a" and not "b".
C11_Witness ==
    /\ lastFilter.op = "removeFilters"
    /\ lastFilter.filterIds = <<"b", "a">>
    /\ DOMAIN previousFilterView = {"a"}
    /\ DOMAIN FiltersView = {}

\* C12: after removeAllSearchInstances() the store is empty and
\* hasAnySearchInstance() is false, whatever the store held (nothing included,
\* as after a first removeAllSearchInstances()); hasAnySearchInstance() is true
\* exactly when the store has a key.
C12_RemoveAllEmpties ==
    /\ hasAnySearchInstance <=> DOMAIN searchInstances # {}
    /\ last.op = "removeAllSearchInstances" =>
           /\ View = EmptyStore
           /\ ~hasAnySearchInstance
\* removeAllSearchInstances() on a store of two entries.
C12_Witness ==
    /\ last.op = "removeAllSearchInstances"
    /\ DOMAIN previousView = Ids
    /\ ~hasAnySearchInstance

RECURSIVE SequentialAdds(_, _, _)
SequentialAdds(store, entries, n) ==
    IF n > Cardinality(Ids)
    THEN store
    ELSE LET here == {i \in DOMAIN entries : IdOrd[i] = n}
             id == CHOOSE i \in here : TRUE
         IN SequentialAdds(
                IF here = {}
                THEN store
                ELSE addSearchInstanceUpdater(
                         store, id, entries[id].query, entries[id].hasUrlSync),
                entries, n + 1)
\* The arguments whose entries all give hasUrlSync.
SearchWithSync ==
    {instances \in Search : \A i \in DOMAIN instances : "hasUrlSync" \in DOMAIN instances[i]}

C16_BulkUpdateIsBulkAdd ==
    /\ \A instances \in Search :
           Cardinality(FreeRefs) >= Cardinality(DOMAIN instances) =>
               updateSearchInstancesUpdater(searchInstances, ArgEntries(instances))
                   = addSearchInstancesUpdater(searchInstances, ArgEntries(instances))
    /\ \A args \in FiltersArgs :
           updateFiltersUpdater(filters, FilterArgRefs(args))
               = addFiltersUpdater(filters, FilterArgRefs(args))
    /\ last.op = "updateSearchInstances" =>
           /\ DOMAIN View = DOMAIN previousView \cup DOMAIN last.instances
           /\ \A id \in DOMAIN View :
                  View[id] = IF id \in DOMAIN last.instances
                             THEN last.instances[id]
                             ELSE previousView[id]
    /\ lastFilter.op = "updateFilters" =>
           /\ DOMAIN FiltersView = DOMAIN previousFilterView \cup DOMAIN lastFilter.filters
           /\ \A id \in DOMAIN FiltersView :
                  FiltersView[id] = IF id \in DOMAIN lastFilter.filters
                                    THEN lastFilter.filters[id]
                                    ELSE previousFilterView[id]
\* updateFilters of two filters on a store that had one of them.
C16_Witness ==
    /\ lastFilter.op = "updateFilters"
    /\ DOMAIN lastFilter.filters = Ids
    /\ DOMAIN previousFilterView = {"a"}
    /\ DOMAIN FiltersView = Ids

\* C17: useSearchContext() called with no SearchProvider above the caller throws
\* the error 'useSearchContext must be used within a SearchProvider'.
C17_OutsideProviderThrows ==
    (consumer.hook = "useSearchContext" /\ ~consumer.enclosed) =>
        consumer.outcome = [threw |-> "useSearchContext must be used within a SearchProvider"]

\* C18: useFilter() called with no FilterProvider above the caller throws the
\* error 'useFilter must be used within a FilterProvider'; under a FilterProvider
\* it returns the value of that provider.
C18_UseFilterOutsideThrows ==
    consumer.hook = "useFilter" =>
        IF consumer.enclosed
        THEN consumer.outcome = [returned |-> [api |-> "FilterProvider"]]
        ELSE consumer.outcome = [threw |-> "useFilter must be used within a FilterProvider"]
\* A call of useFilter() outside a FilterProvider, which threw.
C18_Witness ==
    /\ consumer.hook = "useFilter"
    /\ ~consumer.enclosed
    /\ "threw" \in DOMAIN consumer.outcome

\* C19: updateUrlParam(id, enabled, ...) makes no navigation request and changes
\* neither the location nor the store when enabled is false, and makes exactly
\* one request when it is true; updateUrlParams() makes exactly one request,
\* however many entries the store has.
C19_OneRequestPerCall ==
    /\ last.op = "updateUrlParam" =>
           /\ View = last.store
           /\ IF last.hasUrlSync
              THEN Len(pushed) = 1
              ELSE pushed = <<>> /\ urlSearchParams = last.params
    /\ last.op = "updateUrlParams" => Len(pushed) = 1
\* updateUrlParam with enabled false, with two entries stored and parameters in
\* the location.
C19_Witness ==
    /\ last.op = "updateUrlParam"
    /\ ~last.hasUrlSync
    /\ DOMAIN View = Ids
    /\ DOMAIN urlSearchParams # {}
    /\ pushed = <<>>

\* C20: the request of updateUrlParam(id, true, explicitValue) carries the
\* parameter id with the value explicitValue, whatever the store has for id.
C20_ExplicitValueIsSent ==
    (last.op = "updateUrlParam" /\ last.hasUrlSync /\ last.queryValue # NoValue) =>
        /\ Len(pushed) = 1
        /\ Get(pushed[1], last.id) = last.queryValue

\* The names a parameter of a location can have: the ids and one other name.
ParamNames == Ids \cup {"p"}
\* store[id].query.value || '', on what a store showed.
ShownValueOrEmpty(view, id) ==
    IF id \in DOMAIN view /\ view[id].query.value # Null THEN view[id].query.value ELSE ""

\* C21: updateUrlParam(id, true) with no explicit value requests the current
\* parameters with id set to the stored value (the empty string when the value is
\* null or id has no entry), every other parameter keeping its values.
C21_RoundTrip ==
    (last.op = "updateUrlParam" /\ last.hasUrlSync /\ last.queryValue = NoValue) =>
        /\ Len(pushed) = 1
        /\ GetAll(pushed[1], last.id) = <<ShownValueOrEmpty(last.store, last.id)>>
        /\ \A n \in ParamNames \ {last.id} :
               GetAll(pushed[1], n) = GetAll(last.params, n)

\* C22: the one request of updateUrlParams() has a parameter for every entry of
\* the store, with the stored value (the empty string for null) whatever the
\* hasUrlSync of the entry, and every parameter of the location that is not the
\* id of an entry keeps its values.
C22_SyncAll ==
    last.op = "updateUrlParams" =>
        /\ Len(pushed) = 1
        /\ \A id \in DOMAIN last.store :
               GetAll(pushed[1], id) = <<ShownValueOrEmpty(last.store, id)>>
        /\ \A n \in ParamNames \ DOMAIN last.store :
               GetAll(pushed[1], n) = GetAll(last.params, n)

\* C25: the store object a mutation was given still shows, after the mutation,
\* what it showed when it was the published one: no mutation writes into the
\* entries or payload objects of the previous snapshot.
C25_SnapshotImmutable == StoreView(previous, objectValues) = previousView

\* C29: after addFilters(x) or updateFilters(x) every id of x shows exactly the
\* record supplied for it, with no field of the entry it replaces carried over,
\* and every other id shows what it showed before and none other is present.
C29_ShallowMerge ==
    lastFilter.op \in {"addFilters", "updateFilters"} =>
        /\ DOMAIN FiltersView = DOMAIN previousFilterView \cup DOMAIN lastFilter.filters
        /\ \A id \in DOMAIN lastFilter.filters : FiltersView[id] = lastFilter.filters[id]
        /\ \A id \in DOMAIN previousFilterView \ DOMAIN lastFilter.filters :
               FiltersView[id] = previousFilterView[id]
\* updateFilters({ a: { value: "y" } }) on a store where a had a category and b
\* was present: a has no category afterwards and b is as it was.
C29_Witness ==
    /\ lastFilter.op = "updateFilters"
    /\ DOMAIN lastFilter.filters = {"a"}
    /\ lastFilter.filters["a"] = [value |-> "y"]
    /\ DOMAIN previousFilterView = {"a", "b"}
    /\ previousFilterView["a"] = [value |-> "x", category |-> "c"]
    /\ FiltersView["a"] = [value |-> "y"]
    /\ FiltersView["b"] = previousFilterView["b"]

\* C23: when Enter is pressed in a SearchComponent whose hasUrlSync is true, the
\* handler makes one navigation request, and the parameter named by the
\* component's id has in it the value the commit stored, not the one stored before.
C23_CommitIsReflected ==
    (last.op = "handleKeyDown" /\ last.key = "Enter" /\ last.hasUrlSync) =>
        /\ Len(pushed) = 1
        /\ View[last.id].query.value = last.searchValue
        /\ GetAll(pushed[1], last.id) = <<last.searchValue>>

\* C28: the entry a SearchComponent with hasUrlSync registers when it mounts has
\* the value of the parameter named by its id when the location has that
\* parameter, whatever the value, and null when it has not; its hasUrlSync is the
\* component's.
C28_InitialPayloadFromUrl ==
    (last.op = "SearchComponent" /\ last.hasUrlSync) =>
        /\ last.id \in DOMAIN View
        /\ View[last.id].query.value =
               IF last.id \in Names(last.params) THEN Get(last.params, last.id) ELSE Null
        /\ View[last.id].hasUrlSync = last.hasUrlSync

\* C30: a change of the input changes the component's inputValue and nothing of
\* the registry or of the location, and requests no navigation; so does a key
\* other than Enter, which changes nothing at all.  Enter makes the entry of the
\* component's id hold the input's value with the hasUrlSync the entry had,
\* leaves the other entries as they were, and requests a navigation exactly when
\* the component's hasUrlSync is true.
C30_OnlyEnterCommits ==
    /\ last.op = "handleInputChange" =>
           /\ components[last.id].inputValue = last.text
           /\ View = last.store
           /\ urlSearchParams = last.params
           /\ pushed = <<>>
    /\ (last.op = "handleKeyDown" /\ last.key # "Enter") =>
           /\ components[last.id].inputValue = last.searchValue
           /\ View = last.store
           /\ urlSearchParams = last.params
           /\ pushed = <<>>
    /\ (last.op = "handleKeyDown" /\ last.key = "Enter") =>
           /\ DOMAIN View = DOMAIN last.store \cup {last.id}
           /\ View[last.id].query.value = last.searchValue
           /\ View[last.id].hasUrlSync =
                  (last.id \in DOMAIN last.store /\ HasUrlSyncOrFalse(last.store[last.id]))
           /\ \A id \in DOMAIN last.store \ {last.id} : View[id] = last.store[id]
           /\ (pushed # <<>>) <=> last.hasUrlSync
           /\ ~last.hasUrlSync => urlSearchParams = last.params
\* Enter in a component with hasUrlSync whose entry held another value, after
\* the user typed "x": the entry holds "x" and a navigation was requested.
C30_Witness ==
    /\ last.op = "handleKeyDown"
    /\ last.key = "Enter"
    /\ last.hasUrlSync
    /\ last.searchValue = "x"
    /\ last.store[last.id].query.value = "y"
    /\ last.store[last.id].hasUrlSync
    /\ View[last.id] = [query |-> [value |-> "x"], hasUrlSync |-> TRUE]
    /\ Len(pushed) = 1

\* The calls of a cycle that write the entry id after the last
\* removeAllSearchInstances of the cycle, and whether there was one.
Cleared(calls) == \E k \in 1 .. Len(calls) : calls[k].op = "removeAllSearchInstances"
Writes(calls, id) ==
    {k \in 1 .. Len(calls) :
        /\ "id" \in DOMAIN calls[k]
        /\ calls[k].id = id
        /\ \A j \in k .. Len(calls) : calls[j].op # "removeAllSearchInstances"}
\* The hasUrlSync of id once the first k calls are applied in order to store.
RECURSIVE SyncAfter(_, _, _, _)
SyncAfter(store, calls, k, id) ==
    IF k = 0
    THEN id \in DOMAIN store /\ HasUrlSyncOrFalse(store[id])
    ELSE IF calls[k].op = "removeAllSearchInstances"
    THEN FALSE
    ELSE IF calls[k].op = "addSearchInstance" /\ calls[k].id = id
    THEN calls[k].hasUrlSync
    ELSE SyncAfter(store, calls, k - 1, id)

\* C26: after the render that ends a cycle, an id that calls of the cycle wrote
\* (after the last removeAllSearchInstances of the cycle, if any) is present with
\* the value of the last of those calls and the hasUrlSync that applying the
\* calls one after the other gives; an id no call wrote is absent if the cycle
\* removed everything and is as it was otherwise.
C26_CallsApplyInOrder ==
    last.op = "render" =>
        \A id \in Ids :
            IF Writes(last.calls, id) # {}
            THEN /\ id \in DOMAIN View
                 /\ View[id].query.value = last.calls[Max(Writes(last.calls, id))].value
                 /\ View[id].hasUrlSync = SyncAfter(last.store, last.calls, Len(last.calls), id)
            ELSE IF Cleared(last.calls)
            THEN id \notin DOMAIN View
            ELSE /\ id \in DOMAIN View <=> id \in DOMAIN last.store
                 /\ id \in DOMAIN View => View[id] = last.store[id]
\* Two components register "a" and "b" in one cycle, on an empty store: both
\* entries are there after the render.
C26_Witness ==
    /\ last.op = "render"
    /\ last.store = EmptyStore
    /\ Len(last.calls) = MaxBatch
    /\ \A k \in 1 .. Len(last.calls) : last.calls[k].op = "addSearchInstance"
    /\ {last.calls[k].id : k \in 1 .. Len(last.calls)} = Ids
    /\ DOMAIN View = Ids

\* C27: when a mutation has returned to its caller, the readers the caller holds
\* show its effect: after addSearchInstance(id, q, s) or updateSearchInstance(id,
\* q), hasSearchInstance(id) is true and getSearchInstance(id) has the value of
\* q, which is also the value updateUrlParam would send; after
\* removeAllSearchInstances() no id is present.
C27_ReadsSeeTheCall ==
    queue # <<>> =>
        LET c == queue[Len(queue)]
        IN IF c.op = "removeAllSearchInstances"
           THEN ~hasAnySearchInstance
           ELSE /\ hasSearchInstance(c.id)
                /\ getSearchInstance(c.id).query.value = c.value
                /\ StoredValueOrEmpty(c.id) = c.value

\* C24: a mutation of one SearchProvider leaves what the other SearchProvider's
\* store shows as it was, in both directions.
C24_ProvidersAreIsolated ==
    /\ (last.op # "mount" /\ "provider" \notin DOMAIN last) =>
           StoreView(otherProvider.searchInstances, objectValues) = otherProvider.shown
    /\ "provider" \in DOMAIN last => View = last.seen

\* C31: the id of every mounted SearchComponent is present in the registry,
\* after the mount and after every commit and every reset that follows while it
\* is mounted; once the component has unmounted its id is absent.
C31_MountedIsRegistered ==
    /\ \A id \in DOMAIN components : hasSearchInstance(id)
    /\ last.op = "SearchComponent" => hasSearchInstance(last.id)
    /\ last.op = "unmount" => ~hasSearchInstance(last.id)
\* A bulk reset while the component "a" is mounted and after it committed a
\* value: the entry is still there, with the value null.
C31_Witness ==
    /\ last.op = "resetSearchInstances"
    /\ "a" \in last.ids
    /\ "a" \in DOMAIN components
    /\ "a" \in DOMAIN previousView
    /\ previousView["a"].query.value = "x"
    /\ hasSearchInstance("a")
    /\ View["a"].query.value = Null

\* The entries a bulk reset is about: those of the listed ids that exist, and
\* all of them for resetAllSearchInstances.
BulkResetIds ==
    IF last.op = "resetAllSearchInstances"
    THEN DOMAIN previousView
    ELSE last.ids \cap DOMAIN previousView
\* The entry resetSearchInstance(id) leaves, from the same store.
SingleResetEntry(id) ==
    EntryView(resetSearchInstanceUpdater(previous, id, Min(ObjRefs))[id],
              [r \in ObjRefs |-> Null])

\* C32: after resetSearchInstances(instances) or resetAllSearchInstances() every
\* entry the call is about has the hasUrlSync it had and the query value null,
\* and it is the entry that resetSearchInstance(id) leaves from the same store.
C32_BulkResetIsSingleReset ==
    last.op \in {"resetSearchInstances", "resetAllSearchInstances"} =>
        \A id \in BulkResetIds :
            /\ id \in DOMAIN View
            /\ View[id] = [previousView[id] EXCEPT !.query.value = Null]
            /\ View[id] = SingleResetEntry(id)

\* The pairs of arguments that name the same ids.
SameKeys == {p \in Search \X Search : DOMAIN p[1] = DOMAIN p[2]}
\* The arguments that name the ids K.
WithKeys(K) == {instances \in Search : DOMAIN instances = K}

\* C33: on every reachable store, two arguments with the same keys give
\* hasSearchInstances the same result and removeSearchInstances and
\* resetSearchInstances the same resulting store; and the store a call of
\* removeSearchInstances or resetSearchInstances left is the one every argument
\* with those keys gives.
C33_OnlyKeysMatter ==
    /\ \A p \in SameKeys :
           /\ hasSearchInstances(p[1]) = hasSearchInstances(p[2])
           /\ removeSearchInstancesUpdater(searchInstances, p[1])
                  = removeSearchInstancesUpdater(searchInstances, p[2])
           /\ resetSearchInstancesUpdater(searchInstances, p[1])
                  = resetSearchInstancesUpdater(searchInstances, p[2])
           /\ resetSearchInstancesObjects(searchInstances, p[1], objectValues)
                  = resetSearchInstancesObjects(searchInstances, p[2], objectValues)
    /\ last.op = "removeSearchInstances" =>
           \A instances \in WithKeys(last.ids) :
               View = StoreView(removeSearchInstancesUpdater(previous, instances), objectValues)
    /\ last.op = "resetSearchInstances" =>
           \A instances \in WithKeys(last.ids) :
               View = StoreView(
                          resetSearchInstancesUpdater(previous, instances),
                          resetSearchInstancesObjects(previous, instances, objectValues))
\* removeSearchInstances with an argument whose only key is "a", on a store that
\* had "a" and "b": several arguments have that key set, with entries that differ.
C33_Witness ==
    /\ last.op = "removeSearchInstances"
    /\ last.ids = {"a"}
    /\ DOMAIN previousView = {"a", "b"}
    /\ DOMAIN View = {"b"}
    /\ Cardinality(WithKeys(last.ids)) > 1
    /\ hasSearchInstances([i \in {"b"} |-> [query |-> [value |-> Null], hasUrlSync |-> FALSE]])

\* The mutations of the search registry, by the name their calls are recorded under.
RegistryOps ==
    {"addSearchInstance", "addSearchInstances", "updateSearchInstance",
     "updateSearchInstances", "removeSearchInstance", "removeSearchInstances",
     "removeAllSearchInstances", "resetSearchInstance", "resetSearchInstances",
     "resetAllSearchInstances"}

\* C34: a call of updateUrlParam or updateUrlParams leaves the store and its
\* objects as they are; a call of a mutation of the registry makes no navigation
\* request and leaves the location as it is, whatever the hasUrlSync of the
\* entries it writes.
C34_BridgeIsOneWay ==
    [][/\ last'.op \in {"updateUrlParam", "updateUrlParams"} =>
              UNCHANGED <<searchInstances, objectValues>>
       /\ last'.op \in RegistryOps =>
              pushed' = <<>> /\ urlSearchParams' = urlSearchParams]_vars
\* A bulk reset of the entry "a", which has hasUrlSync = true, after its value
\* "x" was sent to the location: the location still has a = x.
C34_Witness ==
    /\ last.op = "resetSearchInstances"
    /\ "a" \in last.ids
    /\ "a" \in DOMAIN View
    /\ View["a"] = [query |-> [value |-> Null], hasUrlSync |-> TRUE]
    /\ GetAll(urlSearchParams, "a") = <<"x">>
    /\ pushed = <<>>

\* C35: after addSearchInstance, updateSearchInstance, removeSearchInstance or
\* resetSearchInstance on id, every other id is present exactly if it was and
\* shows the entry it showed.
C35_SingleIdFrame ==
    last.op \in {"addSearchInstance", "updateSearchInstance",
                 "removeSearchInstance", "resetSearchInstance"} =>
        \A id \in Ids \ {last.id} :
            /\ id \in DOMAIN View <=> id \in DOMAIN previousView
            /\ id \in DOMAIN View => View[id] = previousView[id]
\* removeSearchInstance("a") on a store where "b" had a value and hasUrlSync =
\* true: "a" is gone and "b" is as it was.
C35_Witness ==
    /\ last.op = "removeSearchInstance"
    /\ last.id = "a"
    /\ DOMAIN previousView = {"a", "b"}
    /\ previousView["b"] = [query |-> [value |-> "x"], hasUrlSync |-> TRUE]
    /\ DOMAIN View = {"b"}
    /\ View["b"] = previousView["b"]

\* C36: when a handler has called updateUrlParam(a, true) and then
\* updateUrlParam(b, true) for distinct ids, the location last requested has the
\* parameter a and the parameter b, each with the value stored for it.
C36_SyncsAccumulate ==
    last.op = "syncBoth" =>
        /\ pushed # <<>>
        /\ \A id \in {last.first, last.second} :
               GetAll(pushed[Len(pushed)], id) = <<ShownValueOrEmpty(last.store, id)>>

====
